---- MODULE Spec2Model ----
(***************************************************************************)
(* Credential handling of the User model: the pre-save hook that hashes   *)
(* Password, comparePassword, and generateAccessToken, as given in         *)
(* src/newTerms.md, together with the library calls they rest on           *)
(* (bcrypt.hash, bcrypt.compare, Mongoose change tracking, jwt.sign).      *)
(*                                                                         *)
(* A string is a sequence of byte values.  The JavaScript value undefined  *)
(* is the one-element sequence <<-1>>, which is no string.                 *)
(***************************************************************************)
EXTENDS Integers, Sequences, FiniteSets, Bags, TLC

\* ---------------------------------------------------------------- bounds
\* number of salts bcrypt may draw, i.e. of bcrypt.hash calls in one run
MaxSalts == 2
\* latest time, in seconds, at which a token is issued
MaxClock == 1
\* number of calls that may be in progress together
MaxCalls == 3
\* number of "error" events emitted on app in one run
MaxEmits == 2
\* number of bcrypt.compare calls that may be pending together
MaxCompares == 2
\* number of operations that callers start in one run, in the runs of
\* comparePassword and of two users
MaxOps == 7

\* ------------------------------------------------------ library constants
\* bcrypt.hash(this.Password, 10): the cost factor
SaltRounds == 10
\* bcrypt uses only the first 72 bytes of its input
BcryptMaxBytes == 72
\* the '$' that opens a bcrypt hash string
Dollar == 36
\* express.json({ limit: "16kb" }), express.urlencoded({ limit: "16kb" })
BodyLimitKb == 16
\* const port = process.env.PORT || 8000
DefaultPort == 8000
\* the largest port net.Server.listen accepts
MaxPort == 65535

\* ---------------------------------------------------------------- values
Undefined == <<-1>>
Empty == <<>>

IsString(v) == v # Undefined

RECURSIVE Repeat(_, _)
Repeat(b, n) == IF n = 0 THEN <<>> ELSE <<b>> \o Repeat(b, n - 1)

\* two short passwords and two long ones that agree on their first 72 bytes
PwA == <<1>>
PwB == <<2>>
LongBase == Repeat(1, BcryptMaxBytes)
LongA == LongBase \o <<1>>
LongB == LongBase \o <<2>>

\* values a registration gives for the Password field: a plaintext, the
\* empty string, none
NewInputs == {PwA, LongA, Empty, Undefined}
\* values a caller assigns to the Password field
SetInputs == {PwA, LongA, Undefined}
\* plaintexts a caller presents to comparePassword
AttemptInputs == {PwA, LongA, LongB, Undefined}
\* what a caller assigns and presents while a save of the document is pending
PendingSetInputs == {LongA}
PendingAttempts == {PwA}

Emails == {"e1", "e2"}
AllUsers == {"u1", "u2"}

\* ---------------------------------------------------------------- bcrypt
Min(a, b) == IF a < b THEN a ELSE b

\* the key bcrypt derives from its input: the first 72 bytes
BcryptKey(data) == SubSeq(data, 1, Min(Len(data), BcryptMaxBytes))

\* the salt bcrypt.hash generates for its n-th call: a value never drawn before
GenSalt(n) == n

\* the hash string "$2b$<rounds>$<salt><digest>"; the digest is determined by
\* the key, the salt and the cost, and is kept symbolic
BcryptHashWith(data, rounds, salt) == <<Dollar, rounds, salt>> \o BcryptKey(data)

\* a string that parses as a bcrypt hash
IsBcryptHash(h) == /\ IsString(h)
                   /\ Len(h) >= 3
                   /\ h[1] = Dollar

\* bcrypt.compare(data, encrypted): "error" when an argument is no string,
\* FALSE for a string that is no hash, else re-hash data with the salt and
\* cost read from encrypted and compare
BcryptCompare(data, encrypted) ==
    IF ~IsString(data) \/ ~IsString(encrypted) THEN "error"
    ELSE IF ~IsBcryptHash(encrypted) THEN "false"
    ELSE IF BcryptHashWith(data, encrypted[2], encrypted[3]) = encrypted
         THEN "true" ELSE "false"

\* ------------------------------------------------------------------- jwt
NoToken == [claims |-> <<>>, key |-> "none"]

\* jwt.sign(payload, secretOrPrivateKey, {expiresIn}): the claims are the
\* payload plus iat and exp; the signature binds them to the key
JwtSign(payload, key, expiresIn, at) ==
    LET claims == [k \in (DOMAIN payload) \cup {"iat", "exp"} |->
                      IF k = "iat" THEN at
                      ELSE IF k = "exp" THEN at + expiresIn
                      ELSE payload[k]]
    IN  [claims |-> claims, key |-> key]

\* jwt.verify(token, secretOrPublicKey) at time at: "ok", or the error thrown
JwtVerify(token, key, at) ==
    IF key = "undefined" THEN "JsonWebTokenError"
    ELSE IF token.key # key THEN "JsonWebTokenError"
    ELSE IF at >= token.claims["exp"] THEN "TokenExpiredError"
    ELSE "ok"

\* ------------------------------------------------------------------ state
VARIABLES
    env,             \* process.env: the signing secrets
    budget,          \* the operations the callers may still start in the runs
                     \* that bound their number
    scope,           \* the bindings, in the module of the User model, of
                     \* the identifiers that the token methods read
    nextCalls,       \* per user, the calls of next() that the hook of the
                     \* save in progress has made
    active,          \* the users that requests are made for
    db,              \* the users collection: one stored record per user
    doc,             \* the in-memory User document each request works on
    pc,              \* "idle", "hashing" while save() awaits bcrypt.hash,
                     \* "writing" while it awaits the write
    hashArg,         \* the argument of the pending bcrypt.hash call
    pend,            \* per user, the document as the pending write took it
    cmp,             \* per user, the bag of the pending bcrypt.compare calls,
                     \* each with the two arguments it was given
    nextSalt,        \* number of the next salt bcrypt generates
    hashLog,         \* the completed bcrypt.hash calls: plaintext and result
    presented,       \* the strings presented for Password, per user, each
                     \* with whether it was the stored string at that time
    ret,             \* outcome of the last completed operation
    http,            \* the request the Express application is processing
    ah,              \* the calls of a function wrapped by asyncHandler
    cld,             \* the calls of uploadonCloudinary and the local files
    srv              \* startServer: its position, the listeners of app, the log

credVars == <<env, scope, budget, nextCalls, active, db, doc, pc, hashArg, pend,
              cmp, nextSalt, hashLog, presented, ret>>

vars == <<env, scope, budget, nextCalls, active, db, doc, pc, hashArg, pend, cmp,
          nextSalt, hashLog, presented, ret, http, ah, cld, srv>>

Username(u) == <<"username", u>>
FullName(u) == <<"fullName", u>>

NoRecord == [exists |-> FALSE, id |-> "none", username |-> <<>>,
             email |-> "none", fullName |-> <<>>, Password |-> Undefined]

NoDoc == [exists |-> FALSE, id |-> "none", username |-> <<>>,
          email |-> "none", fullName |-> <<>>, Password |-> Undefined,
          isNew |-> FALSE, modified |-> FALSE,
          saved |-> "null", savedPw |-> Undefined, touched |-> FALSE]

\* no token was issued by the call before
NoIssue == [op |-> "none", token |-> NoToken]

NoRet == [op |-> "none", u |-> "none", status |-> "none", bool |-> "none",
          err |-> "none", token |-> NoToken, arg |-> Undefined,
          enc |-> Undefined,
          hashed |-> FALSE, kind |-> "none", keyName |-> "none",
          nextCalls |-> 0, prev |-> NoIssue]

Ok(op, u) == [NoRet EXCEPT !.op = op, !.u = u, !.status = "ok"]
Err(op, u, e) == [NoRet EXCEPT !.op = op, !.u = u, !.status = "error",
                               !.err = e]

\* ---------------------------------------------------------- the application
\* a request path is the sequence of its segments
MountPath == <<"api", "v1", "users">>
RegisterRoute == <<"register">>
RegisterPath == MountPath \o RegisterRoute

Methods == {"GET", "POST", "OPTIONS"}
Paths == {RegisterPath, MountPath \o <<"login">>, MountPath, <<"logo.png">>,
          <<"register">>}
ContentTypes == {"json", "urlencoded", "multipart", "none"}
BodySizesKb == {1, BodyLimitKb, BodyLimitKb + 1}
\* what the directory public may hold
PublicDirs == {{}, {<<"logo.png">>}, {RegisterPath}}

Requests == [method : Methods, path : Paths, contentType : ContentTypes,
             sizeKb : BodySizesKb, wellFormed : BOOLEAN]

NoRequest == [method |-> "none", path |-> <<>>, contentType |-> "none",
              sizeKb |-> 0, wellFormed |-> TRUE]

\* process.env.CORS_ORIGIN at the moment app.js is evaluated: the imports of
\* index.js are evaluated before its dotenv.config call, so the variable is
\* set only when the environment of the process holds it
CorsOrigins == {"undefined", "http://localhost:3000"}

\* the application between requests, with the files of public and the
\* origin option that cors was given
IdleHttp(files, origin) ==
    [stage |-> "idle", req |-> NoRequest, publicDir |-> files,
     corsOrigin |-> origin, trace |-> <<>>,
     error |-> 0, status |-> 0, bodyKind |-> "none", handledBy |-> "none"]

\* ------------------------------------------------------------ asyncHandler
Errors == {"E1", "E2"}

NoCall == [pc |-> "idle", kind |-> "none", settled |-> "none",
           thrown |-> "none", nextArgs |-> <<>>, escaped |-> "none"]

\* ------------------------------------------------------ uploadonCloudinary
LocalPaths == {"a.png", "b.png"}
\* the falsy arguments: undefined, null and the empty string
FalsyPaths == {"undefined", "null", ""}

NoUpload == [pc |-> "idle", path |-> "undefined", uploaded |-> FALSE,
             returned |-> [kind |-> "none"]]

\* --------------------------------------------------------------- startServer
\* the values of process.env.PORT: unset, empty, a port, a number that is
\* no port
PortEnvs == {"undefined", "", "3000", "70000"}

LogEntry(msg, err, port) == [msg |-> msg, err |-> err, port |-> port]

NoServer == [pc |-> "idle", portEnv |-> "undefined", db |-> "none",
             settled |-> "none", listeners |-> 0, listening |-> FALSE,
             port |-> 0, announced |-> FALSE, calls |-> <<>>, log |-> <<>>,
             emits |-> 0, thrown |-> "none", heard |-> FALSE,
             bind |-> "none", crashed |-> "none"]

\* process.env as the credential runs find it: both secrets set
DefaultEnvs == [JWT_ACCESS_TOKEN_SECRET : {"access-secret"},
                JWT_REFRESH_TOKEN_SECRET : {"refresh-secret"}]

\* process.env as the token runs find it: each secret unset or one of two
\* values, so that the two may be equal
Secrets == {"undefined", "secret-1", "secret-2"}
TokenEnvs == [JWT_ACCESS_TOKEN_SECRET : Secrets,
              JWT_REFRESH_TOKEN_SECRET : Secrets]

\* the names the token methods read as bare identifiers for expiresIn
ExpiryNames == {"JWT_ACCESS_TOKEN_EXPIRY", "JWT_REFRESH_TOKEN_EXPIRY"}

\* the durations, in seconds, that the notes name for expiresIn: "15m" for
\* the access token and "7d" for the refresh token
ExpiryValues == {15 * 60, 7 * 24 * 60 * 60}

\* the module of the User model is not among the sources, and as the method
\* is given nothing binds the names: a scope leaves each name unbound or
\* binds it to one of the durations
Scopes == UNION {[names -> ExpiryValues] : names \in SUBSET ExpiryNames}

\* the scope of the method as it is given, and the scope that binds the
\* names as the notes say
NoScope == CHOOSE sc \in Scopes : DOMAIN sc = {}
NotesScope == [n \in ExpiryNames |->
                 IF n = "JWT_ACCESS_TOKEN_EXPIRY" THEN 15 * 60
                 ELSE 7 * 24 * 60 * 60]

\* the runs that do not bound the number of operations, and those that do
Unbounded == [bounded |-> FALSE, left |-> 0]
AtMost(n) == [bounded |-> TRUE, left |-> n]

InitCred(users, envs, scopes, ops) ==
    /\ env \in envs
    /\ scope \in scopes
    /\ budget = ops
    /\ nextCalls = [u \in AllUsers |-> 0]
    /\ active = users
    /\ db = [u \in AllUsers |-> NoRecord]
    /\ doc = [u \in AllUsers |-> NoDoc]
    /\ pc = [u \in AllUsers |-> "idle"]
    /\ hashArg = [u \in AllUsers |-> Undefined]
    /\ pend = [u \in AllUsers |-> NoDoc]
    /\ cmp = [u \in AllUsers |-> EmptyBag]
    /\ nextSalt = 1
    /\ hashLog = <<>>
    /\ presented = [u \in AllUsers |-> {}]
    /\ ret = NoRet

\* no request in progress, no wrapped call made, no upload started
InitWeb ==
    /\ http = IdleHttp({}, "undefined")
    /\ ah = [r \in 1..MaxCalls |-> NoCall]
    /\ cld = [files |-> {}, calls |-> [c \in 1..MaxCalls |-> NoUpload]]
    /\ srv = NoServer

InitWith(users) ==
    InitCred(users, DefaultEnvs, {NotesScope}, Unbounded) /\ InitWeb

Init == InitWith({"u1"})

\* ------------------------------------------------- Mongoose change tracking
\* doc.Password = v.  A set on a new document always marks the path; on a
\* stored document it marks the path when v differs from the current value.
\* A document that was saved in this process remembers the value it was
\* saved with (savedState) and unmarks the path when that value is set back.
\* touched records that an assignment has marked the path since the document
\* was created, loaded or last written, whether or not it was unmarked since.
SetPath(d, v) ==
    LET shouldModify == d.isNew \/ v # d.Password
        saved1   == IF d.saved = "empty" THEN "set" ELSE d.saved
        savedPw1 == IF d.saved = "empty" THEN d.Password ELSE d.savedPw
        unmark   == saved1 = "set" /\ v = savedPw1
    IN  [d EXCEPT !.Password = v,
                  !.touched  = d.touched \/ shouldModify,
                  !.saved    = saved1,
                  !.savedPw  = savedPw1,
                  !.modified = IF unmark THEN FALSE
                               ELSE (d.modified \/ shouldModify)]

\* this.isModified('Password')
IsModified(d) == d.modified

\* the write that follows the hooks: an insert writes every field, an update
\* writes the modified paths
StoredAfterDropsSecret(d, old) ==
    [exists   |-> TRUE,
     id       |-> d.id,
     username |-> d.username,
     email    |-> d.email,
     fullName |-> d.fullName,
     Password |-> IF d.isNew \/ d.modified THEN d.Password ELSE Undefined]
StoredAfter(d, old) ==
    [exists   |-> TRUE,
     id       |-> d.id,
     username |-> d.username,
     email    |-> d.email,
     fullName |-> d.fullName,
     Password |-> IF d.isNew \/ d.modified THEN d.Password ELSE old.Password]

\* the reset of the change tracking once the write is sent: no path is
\* modified and the document is not new; the saved state is left as it is
ResetAfterSave(d) ==
    [d EXCEPT !.isNew = FALSE, !.modified = FALSE, !.touched = FALSE]

\* once the write has succeeded the saved state is replaced by an empty one,
\* in which the next assignment of a path records the value it replaces
ClearSavedState(d) == [d EXCEPT !.saved = "empty", !.savedPw = Undefined]

\* ---------------------------------------------------------------- actions
\* a caller starts an operation: in the runs that bound the number of
\* operations one of them is used up
TakeOp ==
    /\ budget.bounded => budget.left > 0
    /\ budget' = IF budget.bounded THEN [budget EXCEPT !.left = @ - 1]
                 ELSE budget

\* new User({username, email, fullName, Password}): the document of a
\* record that does not exist yet (Mongoose gives it an _id of its own).
\* The model follows one document for each identity u, so a document is
\* made for u while it has none
NewUser(u, pw, e) ==
    /\ ~doc[u].exists
    /\ ~db[u].exists
    /\ doc' = [doc EXCEPT ![u] =
                 [exists |-> TRUE, id |-> u, username |-> Username(u),
                  email |-> e, fullName |-> FullName(u), Password |-> pw,
                  isNew |-> TRUE, modified |-> IsString(pw),
                  saved |-> "null", savedPw |-> Undefined,
                  touched |-> IsString(pw)]]
    /\ presented' = [presented EXCEPT ![u] =
                       IF IsString(pw) THEN @ \cup {<<pw, FALSE>>} ELSE @]
    /\ ret' = NoRet
    /\ TakeOp
    /\ UNCHANGED <<http, ah, cld, srv,
                   env, scope, cmp, nextCalls,
                   active, db, pc, hashArg, pend, nextSalt,
                   hashLog>>

\* user.Password = v
SetPassword(u, v) ==
    /\ doc[u].exists
    /\ doc' = [doc EXCEPT ![u] = SetPath(@, v)]
    /\ presented' = [presented EXCEPT ![u] =
                       IF IsString(v)
                       THEN @ \cup {<<v, db[u].exists /\ v = db[u].Password>>}
                       ELSE @]
    /\ ret' = NoRet
    /\ TakeOp
    /\ UNCHANGED <<http, ah, cld, srv,
                   env, scope, cmp, nextCalls,
                   active, db, pc, hashArg, pend, nextSalt,
                   hashLog>>

\* user.email = e
SetEmail(u, e) ==
    /\ doc[u].exists
    /\ doc[u].email # e
    /\ doc' = [doc EXCEPT ![u].email = e]
    /\ ret' = NoRet
    /\ TakeOp
    /\ UNCHANGED <<http, ah, cld, srv,
                   env, scope, cmp, nextCalls,
                   active, db, pc, hashArg, pend, nextSalt,
                   hashLog, presented>>

\* User.findById(id): a fresh document holding the stored fields.  The
\* model follows one document of each record: the fetched document takes
\* the place of the one followed before, which is possible while no save of
\* that one is pending.  A second document of the same record that is kept
\* beside the first is outside the model
Load(u) ==
    /\ pc[u] = "idle"
    /\ db[u].exists
    /\ doc' = [doc EXCEPT ![u] =
                 [exists |-> TRUE, id |-> db[u].id,
                  username |-> db[u].username, email |-> db[u].email,
                  fullName |-> db[u].fullName, Password |-> db[u].Password,
                  isNew |-> FALSE, modified |-> FALSE,
                  saved |-> "null", savedPw |-> Undefined,
                  touched |-> FALSE]]
    /\ ret' = NoRet
    /\ TakeOp
    /\ UNCHANGED <<http, ah, cld, srv,
                   env, scope, cmp, nextCalls,
                   active, db, pc, hashArg, pend, nextSalt,
                   hashLog, presented>>

\* ------------------------------------------------------ the pre-save hook
\* if (!this.isModified('Password')) return next();
HookNeverSkips(d) == FALSE
HookSkipsHash(d) == ~IsModified(d)

\* this.Password = await bcrypt.hash(this.Password, 10), for the n-th salt
HashedPasswordPlain(data, n) == data
HashedPasswordFixedSalt(data, n) == BcryptHashWith(data, SaltRounds, 1)
HashedPassword(data, n) == BcryptHashWith(data, SaltRounds, GenSalt(n))

\* the stored record once the awaited bcrypt.hash has rejected: the async
\* hook rejects before it reaches next(), so save() fails and writes nothing
AfterHashFailureWrites(d, old) == StoredAfter(d, old)
AfterHashFailure(d, old) == old

\* if (!this.isModified('Password')) return next();
\* the return ends the hook at its call of next(): the hook does not go on
\* to the statements below it.  Without the return it would, with d as the
\* call of next() has left it
HookGoesOnWithoutReturn(d) == TRUE
HookGoesOnAfterSkip(d) == FALSE

\* next(), called by the hook of user u's save: the call is counted
CallNext(u) == nextCalls' = [nextCalls EXCEPT ![u] = @ + 1]

\* the outcome of a save whose write has succeeded; n is the number of
\* calls of next() its hook has made
SaveOk(u, hashed, arg, n) ==
    [Ok("save", u) EXCEPT !.hashed = hashed, !.arg = arg, !.nextCalls = n]

\* the document the hook acts on and the save writes: this
HookTargetShared(u) == "u1"
HookTarget(u) == u

\* user.save() up to its first suspension: a save of a document that is
\* being saved is refused; else the hook runs,
\*   if (!this.isModified('Password')) return next();
\*   this.Password = await bcrypt.hash(this.Password, 10);
\* With Password unmodified the hook calls next() and returns: Mongoose
\* takes the document as it is, sends the write and resets the change
\* tracking, and save() is suspended until the write settles.  With
\* Password modified the hook calls bcrypt.hash with whatever Password
\* holds, a string or not, and is suspended.
SaveBegin(u) ==
    /\ doc[u].exists
    /\ \/ /\ pc[u] # "idle"
          /\ ret' = Err("save", u, "ParallelSaveError")
          /\ UNCHANGED <<db, doc, pc, hashArg, pend, nextCalls>>
       \/ /\ pc[u] = "idle"
          /\ HookSkipsHash(doc[u])
          /\ CallNext(u)
          /\ pend' = [pend EXCEPT ![u] = doc[u]]
          /\ doc' = [doc EXCEPT ![u] = ResetAfterSave(@)]
          /\ IF HookGoesOnAfterSkip(doc[u])
             THEN /\ IsString(doc[u].Password) => nextSalt <= MaxSalts
                  /\ pc' = [pc EXCEPT ![u] = "hashing"]
                  /\ hashArg' = [hashArg EXCEPT ![u] = doc[u].Password]
             ELSE /\ pc' = [pc EXCEPT ![u] = "writing"]
                  /\ UNCHANGED hashArg
          /\ ret' = NoRet
          /\ UNCHANGED db
       \/ /\ pc[u] = "idle"
          /\ ~HookSkipsHash(doc[u])
          /\ IsString(doc[u].Password) => nextSalt <= MaxSalts
          /\ pc' = [pc EXCEPT ![u] = "hashing"]
          /\ hashArg' = [hashArg EXCEPT ![u] = doc[u].Password]
          /\ ret' = NoRet
          /\ UNCHANGED <<db, doc, pend, nextCalls>>
    /\ TakeOp
    /\ UNCHANGED <<http, ah, cld, srv,
                   env, scope, cmp,
                   active, nextSalt, hashLog,
                   presented>>

\* bcrypt.hash resolves and the hook resumes: it assigns the hash of the
\* plaintext it was called with, whatever Password has been assigned
\* meanwhile, and calls next(); Mongoose sends the write and resets the
\* change tracking
HashResolve(u) ==
    /\ pc[u] = "hashing"
    /\ IsString(hashArg[u])
    /\ LET h  == HashedPassword(hashArg[u], nextSalt)
           d1 == SetPath(doc[u], h)
       IN  /\ pend' = [pend EXCEPT ![u] = d1]
           /\ doc' = [doc EXCEPT ![u] = ResetAfterSave(d1)]
           /\ hashLog' = Append(hashLog,
                                [u |-> u, plain |-> hashArg[u], hash |-> h])
    /\ CallNext(u)
    /\ ret' = NoRet
    /\ nextSalt' = nextSalt + 1
    /\ pc' = [pc EXCEPT ![u] = "writing"]
    /\ UNCHANGED <<http, ah, cld, srv,
                   env, scope, budget, cmp,
                   active, db, hashArg, presented>>

\* bcrypt.hash rejects: it was given no string ("data and salt arguments
\* required"), or the hashing library fails; the hook ends there and save()
\* rejects
HashReject(u) ==
    /\ pc[u] = "hashing"
    /\ db' = [db EXCEPT ![u] = AfterHashFailure(doc[u], @)]
    /\ ret' = [Err("save", u, "Error") EXCEPT !.arg = hashArg[u],
                                             !.nextCalls = nextCalls[u]]
    /\ pc' = [pc EXCEPT ![u] = "idle"]
    /\ hashArg' = [hashArg EXCEPT ![u] = Undefined]
    /\ nextCalls' = [nextCalls EXCEPT ![u] = 0]
    /\ UNCHANGED <<http, ah, cld, srv,
                   env, scope, budget, cmp,
                   active, doc, pend, nextSalt, hashLog,
                   presented>>

\* the write succeeds: the record holds what the document held when the
\* write was sent, the saved state of the document is emptied and save()
\* resolves
WriteResolve(u) ==
    /\ pc[u] = "writing"
    /\ db' = [db EXCEPT ![HookTarget(u)] = StoredAfter(pend[u], @)]
    /\ doc' = [doc EXCEPT ![u] = ClearSavedState(@)]
    /\ ret' = SaveOk(u, IsString(hashArg[u]), hashArg[u], nextCalls[u])
    /\ pc' = [pc EXCEPT ![u] = "idle"]
    /\ hashArg' = [hashArg EXCEPT ![u] = Undefined]
    /\ pend' = [pend EXCEPT ![u] = NoDoc]
    /\ nextCalls' = [nextCalls EXCEPT ![u] = 0]
    /\ UNCHANGED <<http, ah, cld, srv,
                   env, scope, budget, cmp,
                   active, nextSalt, hashLog,
                   presented>>

\* the change tracking of document d after the write of p has failed: a
\* document that was being inserted is new again, one that was being
\* updated has the modified paths it had when the write was sent, whatever
\* has been assigned since.  touched goes on recording that Password was
\* assigned since the document was created, loaded or last written
UndoReset(d, p) ==
    IF p.isNew
    THEN [d EXCEPT !.isNew = TRUE, !.touched = d.touched \/ p.touched]
    ELSE [d EXCEPT !.modified = p.modified,
                   !.touched = d.touched \/ p.touched]

\* the write fails (the database is unreachable, a unique index is
\* violated): nothing is stored and save() rejects, after the hook has
\* called next()
WriteReject(u) ==
    /\ pc[u] = "writing"
    /\ doc' = [doc EXCEPT ![u] = UndoReset(@, pend[u])]
    /\ ret' = [Err("save", u, "MongoServerError")
                 EXCEPT !.arg = hashArg[u], !.hashed = IsString(hashArg[u]),
                        !.nextCalls = nextCalls[u]]
    /\ pc' = [pc EXCEPT ![u] = "idle"]
    /\ hashArg' = [hashArg EXCEPT ![u] = Undefined]
    /\ pend' = [pend EXCEPT ![u] = NoDoc]
    /\ nextCalls' = [nextCalls EXCEPT ![u] = 0]
    /\ UNCHANGED <<http, ah, cld, srv,
                   env, scope, budget, cmp,
                   active, db, nextSalt, hashLog,
                   presented>>

\* ---------------------------------------------------------- comparePassword
\* return await bcrypt.compare(Password, this.Password)
ComparePasswordSwapped(attempt, encrypted) == BcryptCompare(encrypted, attempt)
ComparePasswordResult(attempt, encrypted) == BcryptCompare(attempt, encrypted)

\* the number of bcrypt.compare calls in progress for the given users
RECURSIVE PendingCompares(_)
PendingCompares(users) ==
    IF users = {} THEN 0
    ELSE LET v == CHOOSE x \in users : TRUE
         IN  BagCardinality(cmp[v]) + PendingCompares(users \ {v})

\* the call: the two arguments are read, bcrypt.compare is started and the
\* method is suspended at its await; the caller holds a pending promise.
\* Nothing keeps a caller from calling again while a comparison is pending
ComparePassword(u, attempt) ==
    /\ doc[u].exists
    /\ PendingCompares(AllUsers) < MaxCompares
    /\ cmp' = [cmp EXCEPT ![u] =
                 @ (+) SetToBag({[attempt |-> attempt,
                                  encrypted |-> doc[u].Password]})]
    /\ ret' = NoRet
    /\ TakeOp
    /\ UNCHANGED <<http, ah, cld, srv,
                   env, scope, nextCalls, active, db, doc, pc, hashArg,
                   pend, nextSalt, hashLog, presented>>

\* the pending call c of bcrypt.compare settles and the promise of its
\* comparePassword with it: the outcome is that of the arguments read at the
\* call, whatever the document holds by now
CompareSettles(u, c) ==
    /\ BagIn(c, cmp[u])
    /\ LET r == ComparePasswordResult(c.attempt, c.encrypted)
       IN  ret' = IF r = "error"
                  THEN [Err("compare", u, "Error")
                          EXCEPT !.arg = c.attempt, !.enc = c.encrypted]
                  ELSE [Ok("compare", u)
                          EXCEPT !.bool = r, !.arg = c.attempt,
                                 !.enc = c.encrypted]
    /\ cmp' = [cmp EXCEPT ![u] = @ (-) SetToBag({c})]
    /\ UNCHANGED <<http, ah, cld, srv,
                   env, scope, budget, nextCalls, active, db, doc, pc, hashArg,
                   pend, nextSalt, hashLog, presented>>

\* ------------------------------------------------------ generateAccessToken
PayloadKeys == {"_id", "username", "email", "fullName"}

AccessPayloadWithPassword(d) ==
    [k \in PayloadKeys \cup {"Password"} |->
        IF k = "_id" THEN d.id
        ELSE IF k = "username" THEN d.username
        ELSE IF k = "email" THEN d.email
        ELSE IF k = "fullName" THEN d.fullName
        ELSE d.Password]
AccessPayload(d) ==
    [k \in PayloadKeys |->
        IF k = "_id" THEN d.id
        ELSE IF k = "username" THEN d.username
        ELSE IF k = "email" THEN d.email
        ELSE d.fullName]

\* generateRefreshToken "is identical" but for the secret and the expiry
RefreshPayloadNoId(d) == [k \in {"username"} |-> d.username]
RefreshPayload(d) == AccessPayload(d)

\* process.env.JWT_ACCESS_TOKEN_SECRET
AccessSecret(e) == e.JWT_ACCESS_TOKEN_SECRET

\* process.env.JWT_REFRESH_TOKEN_SECRET
RefreshSecretCopied(e) == e.JWT_ACCESS_TOKEN_SECRET
RefreshSecret(e) == e.JWT_REFRESH_TOKEN_SECRET

\* { expiresIn: JWT_ACCESS_TOKEN_EXPIRY }: the identifier that
\* generateAccessToken reads for the lifetime of its token
AccessExpiryName == "JWT_ACCESS_TOKEN_EXPIRY"

\* the identifier that generateRefreshToken reads: JWT_REFRESH_TOKEN_EXPIRY
RefreshExpiryNameCopied == "JWT_ACCESS_TOKEN_EXPIRY"
RefreshExpiryName == "JWT_REFRESH_TOKEN_EXPIRY"

\* jwt.sign throws "secretOrPrivateKey must have a value" for a missing key
SecretMissingNever(key) == FALSE
SecretMissing(key) == key = "undefined"

\* the outcome of return jwt.sign(payload, key, {expiresIn})
SignOutcome(op, u, payload, key, expiresIn, at) ==
    IF SecretMissing(key) THEN Err(op, u, "Error")
    ELSE [Ok(op, u) EXCEPT !.token = JwtSign(payload, key, expiresIn, at)]

\* return jwt.sign({_id, username, email, fullName},
\*                 process.env.JWT_ACCESS_TOKEN_SECRET,
\*                 { expiresIn: JWT_ACCESS_TOKEN_EXPIRY })
\* The arguments are evaluated before jwt.sign is called: reading the bare
\* identifier throws a ReferenceError where the module does not bind it
AccessTokenOf(d, u, e, sc, at) ==
    IF AccessExpiryName \notin DOMAIN sc
    THEN Err("accessToken", u, "ReferenceError")
    ELSE SignOutcome("accessToken", u, AccessPayload(d), AccessSecret(e),
                     sc[AccessExpiryName], at)

RefreshTokenOf(d, u, e, sc, at) ==
    IF RefreshExpiryName \notin DOMAIN sc
    THEN Err("refreshToken", u, "ReferenceError")
    ELSE SignOutcome("refreshToken", u, RefreshPayload(d), RefreshSecret(e),
                     sc[RefreshExpiryName], at)

\* the token that the call before this one issued for user u, if it did:
\* a caller that issues the two tokens of a login holds both
IssuedBefore(u) ==
    IF ret.op \in {"accessToken", "refreshToken"} /\ ret.status = "ok"
       /\ ret.u = u
    THEN [op |-> ret.op, token |-> ret.token]
    ELSE NoIssue

GenerateAccessToken(u, at) ==
    /\ doc[u].exists
    /\ ret' = [AccessTokenOf(doc[u], u, env, scope, at)
                 EXCEPT !.prev = IssuedBefore(u)]
    /\ TakeOp
    /\ UNCHANGED <<http, ah, cld, srv,
                   env, scope, cmp, nextCalls,
                   active, db, doc, pc, hashArg, pend,
                   nextSalt, hashLog, presented>>

GenerateRefreshTokenStoring(u, at) ==
    /\ doc[u].exists
    /\ ret' = [RefreshTokenOf(doc[u], u, env, scope, at)
                 EXCEPT !.prev = IssuedBefore(u)]
    /\ doc' = [doc EXCEPT ![u].modified = TRUE]
    /\ TakeOp
    /\ UNCHANGED <<http, ah, cld, srv,
                   env, scope, cmp, nextCalls,
                   active, db, pc, hashArg, pend,
                   nextSalt, hashLog, presented>>
GenerateRefreshToken(u, at) ==
    /\ doc[u].exists
    /\ ret' = [RefreshTokenOf(doc[u], u, env, scope, at)
                 EXCEPT !.prev = IssuedBefore(u)]
    /\ TakeOp
    /\ UNCHANGED <<http, ah, cld, srv,
                   env, scope, cmp, nextCalls,
                   active, db, doc, pc, hashArg, pend,
                   nextSalt, hashLog, presented>>

\* jwt.verify(token, process.env[keyName]) on the token just issued
VerifyToken(keyName, at) ==
    /\ ret.op \in {"accessToken", "refreshToken"}
    /\ ret.status = "ok"
    /\ LET r == JwtVerify(ret.token, env[keyName], at)
       IN  ret' = IF r = "ok"
                  THEN [ret EXCEPT !.op = "verify", !.kind = ret.op,
                                   !.keyName = keyName, !.prev = NoIssue]
                  ELSE [Err("verify", ret.u, r) EXCEPT !.kind = ret.op,
                                                       !.keyName = keyName]
    /\ TakeOp
    /\ UNCHANGED <<http, ah, cld, srv,
                   env, scope, cmp, nextCalls,
                   active, db, doc, pc, hashArg, pend,
                   nextSalt, hashLog, presented>>

\* ----------------------------------------------- the Express application
\* p is path q followed by further segments, or q itself
StartsWith(p, q) ==
    /\ Len(p) >= Len(q)
    /\ SubSeq(p, 1, Len(q)) = q

\* the rest of path p below the mount path q
Below(p, q) == SubSeq(p, Len(q) + 1, Len(p))

\* the middleware stack of app, in the order of the app.use calls
AppStackRouterFirst ==
    <<"userRouter", "cors", "json", "urlencoded", "static", "cookieParser">>
AppStack ==
    <<"cors", "json", "urlencoded", "static", "cookieParser", "userRouter">>

\* the place of a middleware in the stack
StackIndex(name) == CHOOSE i \in DOMAIN AppStack : AppStack[i] = name

\* the middleware that next() of middleware name leads to; after the last
\* one Express's final handler answers
After(name) ==
    IF StackIndex(name) = Len(AppStack) THEN "final"
    ELSE AppStack[StackIndex(name) + 1]

\* a middleware passes the request on: next()
Passed(h, name, to) ==
    [h EXCEPT !.stage = to, !.trace = Append(h.trace, name)]

\* a middleware fails the request: next(err), err.status being the status;
\* the remaining middleware and routes are skipped
Failed(h, name, status) ==
    [h EXCEPT !.stage = "final", !.trace = Append(h.trace, name),
              !.error = status]

\* a middleware or a handler ends the response
Responded(h, name, status, bodyKind) ==
    [h EXCEPT !.stage = "done", !.trace = Append(h.trace, name),
              !.status = status, !.bodyKind = bodyKind, !.handledBy = name]

\* a request arrives while none is in progress
ReceiveRequest(rq) ==
    /\ http.stage \in {"idle", "done"}
    /\ http' = [IdleHttp(http.publicDir, http.corsOrigin) EXCEPT !.stage = AppStack[1],
                                                 !.req = rq]
    /\ UNCHANGED <<credVars, ah, cld, srv>>

\* app.use(cors({ origin: process.env.CORS_ORIGIN, credentials: true })):
\* without an origin option cors calls next() for every request, a preflight
\* included; with one, a preflight is answered with 204 and any other
\* request is passed on
Cors ==
    /\ http.stage = "cors"
    /\ http' = IF http.corsOrigin # "undefined" /\ http.req.method = "OPTIONS"
               THEN Responded(http, "cors", 204, "none")
               ELSE Passed(http, "cors", After("cors"))
    /\ UNCHANGED <<credVars, ah, cld, srv>>

\* a body parser for one content type: other requests are passed on, a body
\* over the limit fails with 413, a body that does not parse with 400
BodyParser(h, name, type, to, strict) ==
    IF h.req.contentType # type THEN Passed(h, name, to)
    ELSE IF h.req.sizeKb > BodyLimitKb THEN Failed(h, name, 413)
    ELSE IF strict /\ ~h.req.wellFormed THEN Failed(h, name, 400)
    ELSE Passed(h, name, to)

\* app.use(express.json({ limit: "16kb" }))
JsonParser ==
    /\ http.stage = "json"
    /\ http' = BodyParser(http, "json", "json", After("json"), TRUE)
    /\ UNCHANGED <<credVars, ah, cld, srv>>

\* app.use(express.urlencoded({ extended: true, limit: "16kb" }))
UrlencodedParser ==
    /\ http.stage = "urlencoded"
    /\ http' = BodyParser(http, "urlencoded", "urlencoded", After("urlencoded"),
                          FALSE)
    /\ UNCHANGED <<credVars, ah, cld, srv>>

\* path p is a directory of public: a file of public lies below it
IsDirectory(p, files) ==
    \E f \in files : Len(f) > Len(p) /\ StartsWith(f, p)

\* app.use(express.static("public")): a GET of a file of public is answered
\* with the file, a GET of a directory of public with a redirect to the
\* path followed by a slash, any other request is passed on
Static ==
    /\ http.stage = "static"
    /\ http' = IF http.req.method # "GET"
               THEN Passed(http, "static", After("static"))
               ELSE IF http.req.path \in http.publicDir
               THEN Responded(http, "static", 200, "file")
               ELSE IF IsDirectory(http.req.path, http.publicDir)
               THEN Responded(http, "static", 301, "redirect")
               ELSE Passed(http, "static", After("static"))
    /\ UNCHANGED <<credVars, ah, cld, srv>>

\* app.use(cookieParser())
CookieParser ==
    /\ http.stage = "cookieParser"
    /\ http' = Passed(http, "cookieParser", After("cookieParser"))
    /\ UNCHANGED <<credVars, ah, cld, srv>>

\* app.use('/api/v1/users', userRouter)
MountPathUser == <<"user">>
UserRouterMount == MountPath

\* router.route("/register").post(registerUser): the route's method
RegisterMethod == "POST"

\* the request is for the path of the register route
OnRegisterRoute(rq) ==
    /\ StartsWith(rq.path, UserRouterMount)
    /\ Below(rq.path, UserRouterMount) = RegisterRoute

\* the users router: a request below the mount path whose rest is /register
\* and whose method is POST goes to registerUser; an OPTIONS request for
\* that path is answered by the router itself with 200 and the methods of
\* the route in the Allow header; any other is passed on
UserRouter ==
    /\ http.stage = "userRouter"
    /\ http' = IF OnRegisterRoute(http.req) /\ http.req.method = RegisterMethod
               THEN Passed(http, "userRouter", "registerUser")
               ELSE IF OnRegisterRoute(http.req) /\ http.req.method = "OPTIONS"
               THEN Responded(http, "userRouter", 200, "allow")
               ELSE Passed(http, "userRouter", After("userRouter"))
    /\ UNCHANGED <<credVars, ah, cld, srv>>

\* registerUser = asyncHandler(async (req, res) => {
\*     return res.status(200).json({ ... }) })
RegisterUserStatus == 200

RegisterUser ==
    /\ http.stage = "registerUser"
    /\ http' = Responded(http, "registerUser", RegisterUserStatus, "json")
    /\ UNCHANGED <<credVars, ah, cld, srv>>

\* no middleware and no route answered: Express answers 404, or the status
\* of the error that was passed to next
FinalHandler ==
    /\ http.stage = "final"
    /\ http' = Responded(http, "finalhandler",
                         IF http.error # 0 THEN http.error ELSE 404, "html")
    /\ UNCHANGED <<credVars, ah, cld, srv>>

\* ------------------------------------------------- the asyncHandler wrapper
\* asyncHandler(requestHandler)(req, res, next) is
\*   Promise.resolve(requestHandler(req, res, next)).catch(err => next(err))

\* the call of a requestHandler that returns a value: the argument of
\* Promise.resolve is a value, the promise is fulfilled, catch does not run
WrappedReturns(r) ==
    /\ ah[r].pc = "idle"
    /\ ah' = [ah EXCEPT ![r] = [@ EXCEPT !.pc = "returned", !.kind = "sync",
                                         !.settled = "fulfilled"]]
    /\ UNCHANGED <<credVars, http, cld, srv>>

\* the call of a requestHandler that throws e before it returns: the
\* argument of Promise.resolve is evaluated first, so the exception leaves
\* the wrapper before a promise or its catch exists
WrappedThrows(r, e) ==
    /\ ah[r].pc = "idle"
    /\ ah' = [ah EXCEPT ![r] = [@ EXCEPT !.pc = "threw", !.kind = "sync",
                                         !.thrown = e, !.escaped = e]]
    /\ UNCHANGED <<credVars, http, cld, srv>>

\* the call of an async requestHandler: it returns a pending promise, the
\* wrapper attaches catch and returns
WrappedAsync(r) ==
    /\ ah[r].pc = "idle"
    /\ ah' = [ah EXCEPT ![r] = [@ EXCEPT !.pc = "pending", !.kind = "async"]]
    /\ UNCHANGED <<credVars, http, cld, srv>>

\* the promise of the requestHandler is fulfilled
HandlerFulfils(r) ==
    /\ ah[r].pc = "pending"
    /\ ah' = [ah EXCEPT ![r] = [@ EXCEPT !.pc = "returned",
                                         !.settled = "fulfilled"]]
    /\ UNCHANGED <<credVars, http, cld, srv>>

\* .catch(err => next(err)): what is passed to next for a rejection with e
CatchCallsNextTwice(args, e) == Append(Append(args, e), e)
CatchCallsNext(args, e) == Append(args, e)

\* the promise of the requestHandler is rejected with e
HandlerRejects(r, e) ==
    /\ ah[r].pc = "pending"
    /\ ah' = [ah EXCEPT ![r] = [@ EXCEPT !.pc = "returned",
                                         !.settled = "rejected",
                                         !.thrown = e,
                                         !.nextArgs = CatchCallsNext(@, e)]]
    /\ UNCHANGED <<credVars, http, cld, srv>>

\* -------------------------------------------------------- uploadonCloudinary
\* what cloudinary.uploader.upload resolves with for a file
UploadResult(path) ==
    [kind |-> "uploadResult", url |-> <<"https://res.cloudinary.com", path>>,
     resource_type |-> "image"]

\* the object response imported from express: no upload result, no url
ExpressResponse == [kind |-> "expressResponse", url |-> "undefined"]

\* multer stores an uploaded file at a local path
StoreLocalFile(path) ==
    /\ path \notin cld.files
    /\ cld' = [cld EXCEPT !.files = @ \cup {path}]
    /\ UNCHANGED <<credVars, http, ah, srv>>

\* !localfilepath
PathMissingOnlyUndefined(path) == path = "undefined"
PathMissing(path) == path \in FalsyPaths

\* fs.unlinkSync(localfilepath) for a file that is there
FilesAfterUnlinkKept(files, path) == files
FilesAfterUnlink(files, path) == files \ {path}

\* uploadonCloudinary(localfilepath) up to its first suspension:
\*   if (!localfilepath) return null;
\*   const uploadResult = await cloudinary.uploader.upload(localfilepath, ..)
UploadCall(c, path) ==
    /\ cld.calls[c].pc = "idle"
    /\ cld' = [cld EXCEPT !.calls[c] =
                 IF PathMissing(path)
                 THEN [@ EXCEPT !.pc = "done", !.path = path,
                                !.returned = [kind |-> "null"]]
                 ELSE [@ EXCEPT !.pc = "uploading", !.path = path]]
    /\ UNCHANGED <<credVars, http, ah, srv>>

\* return response;
ReturnedOnSuccess(path) == ExpressResponse

\* the upload resolves; whether it does is the SDK's matter, the function
\* itself never looks at the file:
\*   console.log("File is uploaded on cloudinary", response.url);
\*   return response;
UploadResolves(c) ==
    /\ cld.calls[c].pc = "uploading"
    /\ cld' = [cld EXCEPT !.calls[c] =
                 [@ EXCEPT !.pc = "done", !.uploaded = TRUE,
                           !.returned = ReturnedOnSuccess(@.path)]]
    /\ UNCHANGED <<credVars, http, ah, srv>>

\* the upload rejects: catch (error) { fs.unlinkSync(localfilepath) }.
\* unlinkSync removes the file and the function returns undefined; when the
\* file is not there unlinkSync throws and the returned promise rejects
UploadRejects(c) ==
    /\ cld.calls[c].pc = "uploading"
    /\ LET path == cld.calls[c].path
       IN  IF path \in cld.files
           THEN cld' = [cld EXCEPT !.files = FilesAfterUnlink(@, path),
                                   !.calls[c] =
                          [@ EXCEPT !.pc = "done",
                                    !.returned = [kind |-> "undefined"]]]
           ELSE cld' = [cld EXCEPT !.calls[c] =
                          [@ EXCEPT !.pc = "done",
                                    !.returned = [kind |-> "rejected",
                                                  code |-> "ENOENT"]]]
    /\ UNCHANGED <<credVars, http, ah, srv>>

\* ------------------------------------------------------------ startServer
\* process.env.PORT || 8000, as listen reads it
PortOf(portEnv) ==
    IF portEnv \in {"undefined", ""} THEN DefaultPort
    ELSE IF portEnv = "3000" THEN 3000
    ELSE 70000

\* listen throws for a number that is no port
ValidPort(port) == port \in 0..MaxPort

\* startServer(): try { await connectDB(); ...
StartServer(portEnv) ==
    /\ srv.pc = "idle"
    /\ srv' = [srv EXCEPT !.pc = "connecting", !.portEnv = portEnv,
                          !.settled = "pending",
                          !.calls = Append(@, "connectDB")]
    /\ UNCHANGED <<credVars, http, ah, cld>>

\* catch (error) { console.error("Failed to start server:", error); }
\* after which startServer returns
StartFailureUncaught(sv, e) ==
    [sv EXCEPT !.pc = "done", !.settled = "rejected"]
StartFailureCaught(sv, e) ==
    [sv EXCEPT !.pc = "done", !.settled = "fulfilled",
               !.log = Append(@, LogEntry("Failed to start server:", e, 0))]

\* the statements after await connectDB(), in their order:
\*   app.on("error", ...);  const port = ...;  app.listen(port, ...)
AfterConnectListenFirst == <<"listen", "on">>
AfterConnect == <<"on", "listen">>

\* connectDB() resolves: the listener is registered and listen is called;
\* a listen that throws is caught like a failed connection.  listen binds
\* the port before it returns: with the port free the server is listening
\* from then on, with the port in use it is not; the callback, or the
\* "error" of the http server, follows in a later turn.  Then startServer
\* returns
ConnectResolves ==
    /\ srv.pc = "connecting"
    /\ LET port == PortOf(srv.portEnv)
           sv   == [srv EXCEPT !.db = "resolved",
                               !.calls = @ \o AfterConnect,
                               !.port = port]
       IN  IF ValidPort(port)
           THEN \E free \in BOOLEAN :
                   srv' = [sv EXCEPT !.pc = "done", !.settled = "fulfilled",
                                     !.listeners = 1,
                                     !.listening = free,
                                     !.bind = IF free THEN "bound"
                                              ELSE "failed"]
           ELSE srv' = StartFailureCaught([sv EXCEPT !.listeners = 1],
                                          "ERR_SOCKET_BAD_PORT")
    /\ UNCHANGED <<credVars, http, ah, cld>>

\* connectDB() rejects with e
ConnectRejects(e) ==
    /\ srv.pc = "connecting"
    /\ srv' = StartFailureCaught([srv EXCEPT !.db = "rejected"], e)
    /\ UNCHANGED <<credVars, http, ah, cld>>

\* the server is listening and the callback of listen runs,
\*   console.log(`Server is running at port: ${port}`)
ListenCallback ==
    /\ srv.bind = "bound"
    /\ ~srv.announced
    /\ srv' = [srv EXCEPT !.announced = TRUE,
                          !.log = Append(@, LogEntry("Server is running at port:",
                                                     "none", srv.port))]
    /\ UNCHANGED <<credVars, http, ah, cld>>

\* the port was in use: the http server emits "error" (EADDRINUSE).  The
\* listener of startServer is on app, not on the http server.  What follows
\* is the matter of the installed express, which is not among the sources:
\* where app.listen only delegates to the http server the error has no
\* listener, is an uncaught exception and ends the process; where app.listen
\* also passes the callback to server.once("error") the callback runs, with
\* the error for an argument it does not read, and logs that the server is
\* running although it does not listen
ListenFails ==
    /\ srv.bind = "failed"
    /\ ~srv.announced
    /\ srv.crashed = "none"
    /\ \/ srv' = [srv EXCEPT !.crashed = "EADDRINUSE"]
       \/ srv' = [srv EXCEPT !.announced = TRUE,
                             !.log = Append(@, LogEntry("Server is running at port:",
                                                        "none", srv.port))]
    /\ UNCHANGED <<credVars, http, ah, cld>>

\* what the listener throws: throw error
ListenerThrows(e) == e

\* app.emit("error", e).  With the listener registered:
\*   console.error("Express error:", error);  throw error;
\* with no listener the emitter itself throws e
EmitError(e) ==
    /\ srv.emits < MaxEmits
    /\ srv.crashed = "none"
    /\ srv' = IF srv.listeners > 0
              THEN [srv EXCEPT !.emits = @ + 1, !.heard = TRUE,
                               !.thrown = ListenerThrows(e),
                               !.log = Append(@, LogEntry("Express error:",
                                                          e, 0))]
              ELSE [srv EXCEPT !.emits = @ + 1, !.heard = FALSE,
                               !.thrown = e]
    /\ UNCHANGED <<credVars, http, ah, cld>>

\* the strings a caller may present for Password: the chosen plaintexts and
\* the string that is stored at the moment
StoredStrings(u) == IF db[u].exists THEN {db[u].Password} ELSE {}

\* what a caller assigns to Password of user u's document: any of the
\* inputs, and while a save of the document is pending the one input that
\* differs from what short plaintext the save may be hashing
SetInputsAt(u) ==
    IF pc[u] = "idle" THEN SetInputs \cup StoredStrings(u) ELSE PendingSetInputs

\* what a caller presents to comparePassword of user u's document
AttemptsAt(u) == IF pc[u] = "idle" THEN AttemptInputs ELSE PendingAttempts

Next ==
    \/ \E u \in active, pw \in SetInputs, e \in Emails : NewUser(u, pw, e)
    \/ \E u \in active : \E v \in SetInputsAt(u) : SetPassword(u, v)
    \/ \E u \in active, e \in Emails : SetEmail(u, e)
    \/ \E u \in active : Load(u)
    \/ \E u \in active : SaveBegin(u)
    \/ \E u \in active : HashResolve(u)
    \/ \E u \in active : HashReject(u)
    \/ \E u \in active : WriteResolve(u)
    \/ \E u \in active : WriteReject(u)

Spec == Init /\ [][Next]_vars

\* the runs in which passwords are verified: comparePassword is called on
\* the document at any moment, also while a save of it or another comparison
\* is pending, and a comparison settles at any later moment; the writes of
\* these runs succeed
InitCompare ==
    InitCred({"u1"}, DefaultEnvs, {NotesScope}, AtMost(MaxOps)) /\ InitWeb

NextCompare ==
    \/ \E u \in active, pw \in {PwA, LongA} : NewUser(u, pw, "e1")
    \/ \E u \in active : \E v \in SetInputsAt(u) : SetPassword(u, v)
    \/ \E u \in active : Load(u)
    \/ \E u \in active : SaveBegin(u)
    \/ \E u \in active : HashResolve(u)
    \/ \E u \in active : HashReject(u)
    \/ \E u \in active : WriteResolve(u)
    \/ \E u \in active : \E a \in AttemptsAt(u) : ComparePassword(u, a)
    \/ \E u \in active : \E c \in BagToSet(cmp[u]) : CompareSettles(u, c)

SpecCompare == InitCompare /\ [][NextCompare]_vars

\* the registration runs: documents are made with a plaintext, with the
\* empty string and with none
NextRegister ==
    \/ \E u \in active, pw \in NewInputs, e \in Emails : NewUser(u, pw, e)
    \/ \E u \in active : \E v \in SetInputsAt(u) : SetPassword(u, v)
    \/ \E u \in active, e \in Emails : SetEmail(u, e)
    \/ \E u \in active : Load(u)
    \/ \E u \in active : SaveBegin(u)
    \/ \E u \in active : HashResolve(u)
    \/ \E u \in active : HashReject(u)
    \/ \E u \in active : WriteResolve(u)
    \/ \E u \in active : WriteReject(u)

SpecRegister == Init /\ [][NextRegister]_vars

\* the runs of the hook alone, in which a pending bcrypt.hash and a pending
\* write settle: each promise is resolved or rejected by its library
InitHook == InitWith({"u1"})

NextHook ==
    \/ \E u \in active, pw \in {PwA, Undefined} : NewUser(u, pw, "e1")
    \/ \E u \in active, v \in {PwB, Undefined} : SetPassword(u, v)
    \/ \E u \in active, e \in Emails : SetEmail(u, e)
    \/ \E u \in active : Load(u)
    \/ \E u \in active : SaveBegin(u)
    \/ \E u \in active : HashResolve(u)
    \/ \E u \in active : HashReject(u)
    \/ \E u \in active : WriteResolve(u)
    \/ \E u \in active : WriteReject(u)

HashSettles == \E u \in AllUsers : HashResolve(u) \/ HashReject(u)

\* a write that was sent settles: the driver resolves or rejects its promise
WriteSettles == \E u \in AllUsers : WriteResolve(u) \/ WriteReject(u)

SpecHook ==
    InitHook /\ [][NextHook]_vars /\ WF_vars(HashSettles) /\ WF_vars(WriteSettles)

\* the token runs: one user is registered and saved, tokens are issued and
\* verified under either secret
InitToken == InitCred({"u1"}, TokenEnvs, Scopes, Unbounded) /\ InitWeb

NextToken ==
    \/ \E u \in active, e \in Emails : NewUser(u, PwA, e)
    \/ \E u \in active, e \in Emails : SetEmail(u, e)
    \/ \E u \in active : SaveBegin(u)
    \/ \E u \in active : HashResolve(u)
    \/ \E u \in active : WriteResolve(u)
    \/ \E u \in active, at \in 0..MaxClock : GenerateAccessToken(u, at)
    \/ \E u \in active, at \in 0..MaxClock : GenerateRefreshToken(u, at)
    \/ \E k \in {"JWT_ACCESS_TOKEN_SECRET", "JWT_REFRESH_TOKEN_SECRET"},
          at \in 0..MaxClock : VerifyToken(k, at)

SpecToken == InitToken /\ [][NextToken]_vars

\* the concurrent runs: two users, whose operations interleave at the
\* suspensions of save() in bcrypt.hash and in its write and of
\* comparePassword in bcrypt.compare; the expiry names are unbound, as the
\* method is given, or bound as the notes say
InitTwo ==
    InitCred(AllUsers, DefaultEnvs, {NoScope, NotesScope}, AtMost(MaxOps))
    /\ InitWeb

NextTwo ==
    \/ \E u \in active : NewUser(u, PwA, "e1")
    \/ \E u \in active : SetPassword(u, PwA)
    \/ \E u \in active : SetEmail(u, "e2")
    \/ \E u \in active : Load(u)
    \/ \E u \in active : SaveBegin(u)
    \/ \E u \in active : HashResolve(u)
    \/ \E u \in active : HashReject(u)
    \/ \E u \in active : WriteResolve(u)
    \/ \E u \in active : WriteReject(u)
    \/ \E u \in active : ComparePassword(u, PwA)
    \/ \E u \in active : \E c \in BagToSet(cmp[u]) : CompareSettles(u, c)
    \/ \E u \in active : GenerateAccessToken(u, 0)
    \/ \E u \in active : GenerateRefreshToken(u, 0)

SpecTwo == InitTwo /\ [][NextTwo]_vars

\* the credential state while only the application, the wrapper or the
\* upload helper runs
InitCredIdle ==
    InitCred({"u1"},
             {[JWT_ACCESS_TOKEN_SECRET |-> "access-secret",
               JWT_REFRESH_TOKEN_SECRET |-> "refresh-secret"]}, {NotesScope},
             Unbounded)

\* the application runs: requests pass through the middleware of app.js
InitHttp ==
    /\ InitCredIdle
    /\ http \in {IdleHttp(files, origin) : files \in PublicDirs,
                                           origin \in CorsOrigins}
    /\ ah = [r \in 1..MaxCalls |-> NoCall]
    /\ cld = [files |-> {}, calls |-> [c \in 1..MaxCalls |-> NoUpload]]
    /\ srv = NoServer

NextHttp ==
    \/ \E rq \in Requests : ReceiveRequest(rq)
    \/ Cors
    \/ JsonParser
    \/ UrlencodedParser
    \/ Static
    \/ CookieParser
    \/ UserRouter
    \/ RegisterUser
    \/ FinalHandler

SpecHttp == InitHttp /\ [][NextHttp]_vars

\* the wrapper runs: calls of wrapped handlers of either kind, in progress
\* together
InitHandler == InitCredIdle /\ InitWeb

NextHandler ==
    \/ \E r \in 1..MaxCalls : WrappedReturns(r)
    \/ \E r \in 1..MaxCalls, e \in Errors : WrappedThrows(r, e)
    \/ \E r \in 1..MaxCalls : WrappedAsync(r)
    \/ \E r \in 1..MaxCalls : HandlerFulfils(r)
    \/ \E r \in 1..MaxCalls, e \in Errors : HandlerRejects(r, e)

SpecHandler == InitHandler /\ [][NextHandler]_vars

\* the upload helper runs: calls in progress together, over the local files
InitUpload ==
    /\ InitCredIdle
    /\ http = IdleHttp({}, "undefined")
    /\ ah = [r \in 1..MaxCalls |-> NoCall]
    /\ cld \in {[files |-> fs, calls |-> [c \in 1..MaxCalls |-> NoUpload]] :
                  fs \in SUBSET LocalPaths}
    /\ srv = NoServer

NextUpload ==
    \/ \E path \in LocalPaths : StoreLocalFile(path)
    \/ \E c \in 1..MaxCalls, path \in LocalPaths \cup FalsyPaths :
          UploadCall(c, path)
    \/ \E c \in 1..MaxCalls : UploadResolves(c)
    \/ \E c \in 1..MaxCalls : UploadRejects(c)

SpecUpload == InitUpload /\ [][NextUpload]_vars

\* the start of the server, with "error" events emitted on app at any time
InitServer ==
    /\ InitCredIdle
    /\ http = IdleHttp({}, "undefined")
    /\ ah = [r \in 1..MaxCalls |-> NoCall]
    /\ cld = [files |-> {}, calls |-> [c \in 1..MaxCalls |-> NoUpload]]
    /\ srv = NoServer

NextServer ==
    \/ \E portEnv \in PortEnvs : StartServer(portEnv)
    \/ ConnectResolves
    \/ \E e \in Errors : ConnectRejects(e)
    \/ ListenCallback
    \/ ListenFails
    \/ \E e \in Errors : EmitError(e)

SpecServer == InitServer /\ [][NextServer]_vars

\* ================================================================ claims

TypeOK == /\ nextSalt \in 1..(MaxSalts + Cardinality(AllUsers))
          /\ scope \in Scopes
          /\ \A u \in AllUsers : IsABag(cmp[u])
          /\ PendingCompares(AllUsers) <= MaxCompares
          /\ \A u \in AllUsers : nextCalls[u] \in 0..1
          /\ \A u \in AllUsers : pc[u] \in {"idle", "hashing", "writing"}

\* string v is a hash the hook made in a save of user u's document
HookMade(u, v) ==
    \E i \in DOMAIN hashLog : hashLog[i].u = u /\ hashLog[i].hash = v

\* the hash calls whose result is the string h
HashesOf(h) == {i \in DOMAIN hashLog : hashLog[i].hash = h}

\* C1 (as stated): once a save has completed, the Password of the persisted
\* record differs from every plaintext that was presented for it.
C1_Original ==
    \A u \in AllUsers :
        (db[u].exists /\ ret.op = "save" /\ ret.status = "ok" /\ ret.u = u) =>
            \A p \in presented[u] : p[1] # db[u].Password

\* C1 (amended): the Password of a persisted record is, when present, a bcrypt
\* hash string, and it differs from every plaintext presented for it other
\* than a presented value that was the stored string itself.
C1_StoredIsHash ==
    \A u \in AllUsers :
        db[u].exists =>
            /\ db[u].Password # Undefined => IsBcryptHash(db[u].Password)
            /\ \A p \in presented[u] : ~p[2] => p[1] # db[u].Password

C1_Witness ==
    \E u \in AllUsers :
        /\ db[u].exists
        /\ IsBcryptHash(db[u].Password)
        /\ Cardinality({p \in presented[u] : ~p[2]}) >= 2
        /\ doc[u].email # db[u].email

\* C2: comparePassword of a plaintext against the hash the hook stored for it
\* succeeds: a comparison that settles, of a plaintext with the Password the
\* document held at the call, is true when that Password is a hash the hook
\* made from that plaintext.
C2_VerifyOwnHash ==
    (ret.op = "compare" /\ IsString(ret.arg)) =>
        \A i \in HashesOf(ret.enc) :
            hashLog[i].plain = ret.arg =>
                (ret.status = "ok" /\ ret.bool = "true")

C2_Witness ==
    /\ ret.op = "compare"
    /\ ret.arg = LongA
    /\ ret.bool = "true"
    /\ ret.enc = db[ret.u].Password
    /\ \E i \in HashesOf(ret.enc) : hashLog[i].plain = LongA
    /\ BagCardinality(cmp[ret.u]) >= 1

\* C3 (as stated): comparePassword of a plaintext p1 against the hash stored
\* for a different plaintext p2 returns false.
C3_Original ==
    (ret.op = "compare" /\ IsString(ret.arg)) =>
        \A i \in HashesOf(ret.enc) :
            hashLog[i].plain # ret.arg =>
                (ret.status = "ok" /\ ret.bool = "false")

\* C4: two hash calls on the same plaintext give two different strings, and
\* the plaintext verifies against both.
C4_SaltedTwice ==
    \A i, j \in DOMAIN hashLog :
        (i # j /\ hashLog[i].plain = hashLog[j].plain) =>
            /\ hashLog[i].hash # hashLog[j].hash
            /\ BcryptCompare(hashLog[i].plain, hashLog[i].hash) = "true"
            /\ BcryptCompare(hashLog[j].plain, hashLog[j].hash) = "true"

C4_Witness ==
    \E i, j \in DOMAIN hashLog :
        /\ i # j
        /\ hashLog[i].plain = hashLog[j].plain
        /\ hashLog[i].plain = PwA

\* a step that completes a save() of user u: the write has succeeded
SaveCompletes(u) == ret'.op = "save" /\ ret'.status = "ok" /\ ret'.u = u

\* a step in which the hook of user u's save calls bcrypt.hash
HashBegins(u) == pc[u] = "idle" /\ pc'[u] = "hashing"

\* a step in which the hook of user u's save returns next() without hashing
HookSkips(u) == pc[u] = "idle" /\ pc'[u] = "writing"

\* a step in which the hook of user u's save resumes with the hash
HookResumes(u) == pc[u] = "hashing" /\ pc'[u] = "writing"

\* C5 (as stated): a save re-hashes the secret if and only if the value
\* presented for the secret field differs from what is persisted, and a
\* re-hash stores a hash different from the prior one.
C5_Original ==
    [][\A u \in AllUsers :
          /\ HashBegins(u) => doc[u].Password # db[u].Password
          /\ HookSkips(u) => doc[u].Password = db[u].Password
          /\ (SaveCompletes(u) /\ ret'.hashed) =>
                db'[u].Password # db[u].Password]_vars

\* C6: a save of a stored user whose secret field has not been changed since
\* it was loaded or last saved does not hash: its hook returns next() in the
\* step of the call; and when its write completes the stored Password is
\* identical.
C6_UnchangedSecretKept ==
    [][\A u \in AllUsers :
          /\ (pc[u] = "idle" /\ pc'[u] # "idle"
                /\ ~doc[u].isNew /\ ~doc[u].touched) =>
                (HookSkips(u) /\ hashLog' = hashLog /\ hashArg' = hashArg)
          /\ (SaveCompletes(u) /\ ~pend[u].isNew /\ ~pend[u].touched) =>
                /\ ~ret'.hashed
                /\ db'[u].Password = db[u].Password
                /\ hashLog' = hashLog]_vars

C6_Witness ==
    \E u \in AllUsers :
        /\ ret.op = "save" /\ ret.status = "ok" /\ ret.u = u /\ ~ret.hashed
        /\ IsBcryptHash(db[u].Password)
        /\ db[u].email = "e2"
        /\ Len(hashLog) = 1

\* C7 (as stated): comparePassword never signals an error to its caller.
C7_Original ==
    ret.op = "compare" => (ret.status = "ok" /\ ret.bool \in {"true", "false"})

\* C8: when hashing fails during a save, nothing is written: the stored
\* records are unchanged, so no record with a plaintext secret is persisted.
C8_HashFailureAborts ==
    [][(ret'.op = "save" /\ ret'.status = "error" /\ ret'.err = "Error") =>
          db' = db]_vars

C8_Witness ==
    \E u \in AllUsers :
        /\ ret.op = "save" /\ ret.status = "error" /\ ret.err = "Error"
        /\ ret.u = u
        /\ ret.arg = PwA
        /\ doc[u].Password = PwA
        /\ doc[u].isNew
        /\ ~db[u].exists

\* C9 (as stated): a registration whose plaintext secret is missing or
\* malformed fails with a ValidationError and leaves the persisted records
\* unchanged.
C9_Original ==
    [][\A u \in AllUsers :
          (/\ pc[u] = "idle"
           /\ doc[u].exists /\ doc[u].isNew
           /\ doc[u].Password \in {Undefined, Empty}
           /\ (pc'[u] # "idle" \/ (ret'.op = "save" /\ ret'.u = u))) =>
              /\ ret'.status = "error"
              /\ ret'.err = "ValidationError"
              /\ pc'[u] = "idle"
              /\ db' = db]_vars

\* C10: the claims of an access token are _id, username, email and fullName
\* of the document it is issued for, besides the iat and exp that signing
\* adds; the stored secret is not among them; the key is the access secret.
C10_AccessTokenClaims ==
    (ret.op = "accessToken" /\ ret.status = "ok") =>
        LET c == ret.token.claims
            d == doc[ret.u]
        IN  /\ (DOMAIN c) \ {"iat", "exp"} = {"_id", "username", "email", "fullName"}
            /\ c["_id"] = d.id
            /\ c["username"] = d.username
            /\ c["email"] = d.email
            /\ c["fullName"] = d.fullName
            /\ ret.token.key = env.JWT_ACCESS_TOKEN_SECRET
            /\ ret.token.key # "undefined"

C10_Witness ==
    /\ ret.op = "accessToken" /\ ret.status = "ok"
    /\ IsBcryptHash(doc[ret.u].Password)
    /\ doc[ret.u].email = "e2"
    /\ ret.token.claims["email"] = "e2"

\* ------------------------------------------------------------- tokens

\* a verification of a token of one kind under the secret of the other kind
CrossVerified ==
    /\ ret.op = "verify"
    /\ \/ ret.kind = "accessToken" /\ ret.keyName = "JWT_REFRESH_TOKEN_SECRET"
       \/ ret.kind = "refreshToken" /\ ret.keyName = "JWT_ACCESS_TOKEN_SECRET"

\* a verification of a token under the secret of its own kind
OwnVerified ==
    /\ ret.op = "verify"
    /\ \/ ret.kind = "accessToken" /\ ret.keyName = "JWT_ACCESS_TOKEN_SECRET"
       \/ ret.kind = "refreshToken" /\ ret.keyName = "JWT_REFRESH_TOKEN_SECRET"

\* C11 (as stated): a token of one kind never verifies under the secret of the
\* other kind.
C11_Original == CrossVerified => ret.status = "error"

\* C11 (amended): when the two secrets of the environment differ, a token
\* issued by generateAccessToken fails verification under the refresh secret
\* and a token issued by generateRefreshToken fails verification under the
\* access secret.
C11_DistinctSecretsReject ==
    (CrossVerified /\ AccessSecret(env) # env.JWT_REFRESH_TOKEN_SECRET) =>
        /\ ret.status = "error"
        /\ ret.err = "JsonWebTokenError"
        /\ ret.token = NoToken

C11_Witness ==
    /\ CrossVerified
    /\ ret.kind = "refreshToken"
    /\ env.JWT_ACCESS_TOKEN_SECRET = "secret-1"
    /\ env.JWT_REFRESH_TOKEN_SECRET = "secret-2"
    /\ ret.status = "error" /\ ret.err = "JsonWebTokenError"

\* C12: a token of either kind that is verified under the secret of its own
\* kind is accepted, and the decoded claims hold the identifier of the user it
\* was issued for.
C12_OwnSecretYieldsId ==
    OwnVerified =>
        /\ ret.status = "ok"
        /\ "_id" \in DOMAIN ret.token.claims
        /\ ret.token.claims["_id"] = doc[ret.u].id

C12_Witness ==
    /\ OwnVerified
    /\ ret.kind = "refreshToken"
    /\ ret.status = "ok"
    /\ ret.token.claims["_id"] = doc["u1"].id
    /\ db["u1"].exists

\* C13: with the access secret absent generateAccessToken throws and returns
\* no token; a token that is returned is signed with the access secret, which
\* is then a value of the environment.
C13_MissingSecretFailsClosed ==
    ret.op = "accessToken" =>
        /\ env.JWT_ACCESS_TOKEN_SECRET = "undefined" =>
              (ret.status = "error" /\ ret.token = NoToken)
        /\ ret.status = "ok" =>
              (ret.token.key # "undefined"
               /\ ret.token.key = env.JWT_ACCESS_TOKEN_SECRET)

C13_Witness ==
    /\ ret.op = "accessToken"
    /\ env.JWT_ACCESS_TOKEN_SECRET = "undefined"
    /\ ret.status = "error" /\ ret.err = "Error"
    /\ ret.token = NoToken

\* the validity window of a token: exp - iat
Window(token) == token.claims["exp"] - token.claims["iat"]

\* the caller holds a token of each kind, issued for the same user by two
\* calls in a row at the same instant
BothIssued ==
    /\ ret.op \in {"accessToken", "refreshToken"} /\ ret.status = "ok"
    /\ ret.prev.op \in {"accessToken", "refreshToken"} \ {ret.op}
    /\ ret.prev.token.claims["iat"] = ret.token.claims["iat"]

\* the token of the given kind among the two
Issued(kind) == IF ret.op = kind THEN ret.token ELSE ret.prev.token

\* the configuration binds both expiry names, the access expiry to the
\* shorter duration
AccessExpiryShorter ==
    /\ DOMAIN scope = ExpiryNames
    /\ scope["JWT_ACCESS_TOKEN_EXPIRY"] < scope["JWT_REFRESH_TOKEN_EXPIRY"]

\* C14: where the configuration binds the access expiry to a shorter
\* duration than the refresh expiry, an access token and a refresh token
\* issued for the same user at the same instant have windows exp - iat of
\* which the access token's is strictly the shorter, and the access token
\* expires first.
C14_AccessWindowShorter ==
    (BothIssued /\ AccessExpiryShorter) =>
        /\ Window(Issued("accessToken")) < Window(Issued("refreshToken"))
        /\ Issued("accessToken").claims["exp"]
              < Issued("refreshToken").claims["exp"]

C14_Witness ==
    /\ BothIssued
    /\ AccessExpiryShorter
    /\ ret.op = "accessToken"
    /\ ret.token.claims["iat"] = 1
    /\ Window(ret.token) = scope["JWT_ACCESS_TOKEN_EXPIRY"]
    /\ Window(ret.prev.token) = scope["JWT_REFRESH_TOKEN_EXPIRY"]

\* C17: a step that returns from generateAccessToken or generateRefreshToken
\* leaves every document, every persisted record, the hash calls made and the
\* environment as they were.
C17_TokenGenerationPure ==
    [][(ret'.op \in {"accessToken", "refreshToken"}) =>
          /\ doc' = doc
          /\ db' = db
          /\ hashLog' = hashLog
          /\ hashArg' = hashArg
          /\ pend' = pend
          /\ pc' = pc
          /\ cmp' = cmp
          /\ env' = env]_vars

C17_Witness ==
    /\ ret.op = "refreshToken" /\ ret.status = "ok"
    /\ db[ret.u].exists
    /\ IsBcryptHash(db[ret.u].Password)
    /\ doc[ret.u].email # db[ret.u].email

\* ------------------------------------------------- the secret's life cycle

\* the state of the secret field of user u's record: "Unset", "Hashed" or
\* "Plain"
SecretState(rec) ==
    IF ~rec.exists \/ rec.Password = Undefined THEN "Unset"
    ELSE IF IsBcryptHash(rec.Password) THEN "Hashed"
    ELSE "Plain"

\* this step completes a save of user u
SaveStep(u) == ret'.op = "save" /\ ret'.u = u

\* C15: the secret field of a record changes only in a step that completes a
\* save of its user, and to a hash the hook made for that user's document;
\* from Unset it goes to Hashed; from Hashed it goes to another hash and only
\* in a save in which the hook hashed, the Password of the document having
\* been assigned since it was loaded or last saved; the hook hashes only a
\* Password that was assigned; a save of a document whose Password was not
\* assigned leaves a record's secret as it is; a record never leaves Hashed
\* for Unset or Plain and never ceases to exist.
C15_SecretLifeCycle ==
    [][\A u \in AllUsers :
          LET old == db[u]
              new == db'[u]
          IN  /\ SecretState(new) # "Plain"
              /\ (old.exists => new.exists)
              /\ (SecretState(old) = "Hashed" => SecretState(new) = "Hashed")
              /\ (SecretState(old) = "Unset" /\ SecretState(new) = "Hashed") =>
                    (SaveStep(u) /\ ret'.status = "ok"
                       /\ HookMade(u, new.Password))
              /\ (SecretState(old) = "Hashed"
                    /\ new.Password # old.Password) =>
                    (SaveStep(u) /\ ret'.status = "ok" /\ ret'.hashed
                       /\ HookMade(u, new.Password)
                       /\ pend[u].touched)
              /\ (SaveStep(u) /\ old.exists /\ ~pend[u].touched) =>
                    new.Password = old.Password
              /\ HashBegins(u) => doc[u].touched]_vars

C15_Witness ==
    /\ ret.op = "save" /\ ret.status = "ok" /\ ret.hashed /\ ret.u = "u1"
    /\ Len(hashLog) = 2
    /\ hashLog[1].u = "u1" /\ hashLog[2].u = "u1"
    /\ db["u1"].Password = hashLog[2].hash
    /\ SecretState(db["u1"]) = "Hashed"

\* ------------------------------------------------------- concurrent users

\* what an operation of user u may read and write: u's document, record,
\* position, hash argument, pending write and pending comparison
OwnState(u) ==
    <<db[u], doc[u], pc[u], hashArg[u], pend[u], cmp[u], presented[u]>>

\* C16: in every step of the interleaved runs of two users, a record's
\* Password changes only when the write of a save of that record's own user
\* completes, and to a hash the hook made for that user's own document (the
\* hash of that save's own argument when the hook hashed in it); and every
\* step changes the state of at most the one user whose operation it is, its
\* outcome for compare and token issuance being a function of that user's own
\* document (for compare, of the Password it held at the call).
C16_OwnHookOnly ==
    [][/\ \A u \in AllUsers :
            (db'[u].Password # db[u].Password) =>
                /\ pc[u] = "writing" /\ pc'[u] = "idle"
                /\ ret'.op = "save" /\ ret'.u = u /\ ret'.status = "ok"
                /\ db'[u].Password = pend[u].Password
                /\ HookMade(u, db'[u].Password)
                /\ ret'.hashed =>
                      \E i \in DOMAIN hashLog :
                          /\ hashLog[i].u = u
                          /\ hashLog[i].plain = hashArg[u]
                          /\ hashLog[i].hash = db'[u].Password
       /\ \A u, v \in AllUsers :
            (u # v /\ OwnState(u)' # OwnState(u)) =>
                OwnState(v)' = OwnState(v)
       /\ \A u \in AllUsers :
            (OwnState(u)' # OwnState(u)) => ret'.u \in {u, "none"}
       /\ \A u \in AllUsers : \A c \in BagToSet(cmp'[u]) :
            CopiesIn(c, cmp'[u]) > CopiesIn(c, cmp[u]) =>
                c.encrypted = doc[u].Password
       /\ (ret'.op = "compare" /\ ret'.status = "ok") =>
            \E c \in BagToSet(cmp[ret'.u]) :
                /\ cmp'[ret'.u] = cmp[ret'.u] (-) SetToBag({c})
                /\ ret'.enc = c.encrypted
                /\ ret'.bool = ComparePasswordResult(c.attempt, c.encrypted)
       /\ (ret'.op = "accessToken") =>
            ret' = [AccessTokenOf(doc[ret'.u], ret'.u, env, scope, 0)
                      EXCEPT !.prev = ret'.prev]
       /\ (ret'.op = "refreshToken") =>
            ret' = [RefreshTokenOf(doc[ret'.u], ret'.u, env, scope, 0)
                      EXCEPT !.prev = ret'.prev]]_vars

C16_Witness ==
    /\ ret.op = "save" /\ ret.status = "ok" /\ ret.hashed /\ ret.u = "u2"
    /\ pc["u1"] = "hashing"
    /\ SecretState(db["u1"]) = "Hashed"
    /\ SecretState(db["u2"]) = "Hashed"
    /\ hashArg["u1"] = PwA

\* ------------------------------------------------------------ the route

\* C18: a POST of /api/v1/users/register that is answered with a status of
\* success was answered by registerUser, with status 200 and a JSON body;
\* and such a request that no body parser failed is answered so.
C18_RegisterAnswered ==
    (http.stage = "done" /\ http.req.method = "POST"
       /\ http.req.path = RegisterPath) =>
        /\ http.status \in 200..299 =>
              /\ http.handledBy = "registerUser"
              /\ http.status = 200
              /\ http.bodyKind = "json"
        /\ http.error = 0 => http.status \in 200..299

C18_Witness ==
    /\ http.stage = "done" /\ http.req.method = "POST"
    /\ http.req.path = RegisterPath
    /\ http.req.contentType = "json" /\ http.req.sizeKb = BodyLimitKb
    /\ http.handledBy = "registerUser"
    /\ http.status = 200 /\ http.bodyKind = "json"
    /\ http.trace = <<"cors", "json", "urlencoded", "static", "cookieParser",
                      "userRouter", "registerUser">>

\* ------------------------------------------------------------ the upload

\* C19 (as stated): a call for a non-empty path whose upload succeeded has
\* returned the upload result of that file.
C19_Original ==
    \A c \in 1..MaxCalls :
        (cld.calls[c].pc = "done" /\ cld.calls[c].uploaded) =>
            cld.calls[c].returned = UploadResult(cld.calls[c].path)

\* ----------------------------------------------------------- the wrapper

\* C20 (as stated): a call whose requestHandler failed, by a rejection or by
\* a throw, has passed that error to next, once, and no exception has left
\* the wrapper.
C20_Original ==
    \A r \in 1..MaxCalls :
        ah[r].thrown # "none" =>
            /\ ah[r].nextArgs = <<ah[r].thrown>>
            /\ ah[r].escaped = "none"

\* --------------------------------------------------- verification over time

\* the comparison that has settled was made against the Password of the
\* persisted record of user u, which the document still holds, no save
\* pending
ComparedPersisted(u) ==
    /\ db[u].exists
    /\ doc[u].exists
    /\ ret.enc = db[u].Password
    /\ doc[u].Password = db[u].Password
    /\ ~doc[u].touched
    /\ pc[u] = "idle"

\* C21 (as stated): comparePassword(p) on the persisted record returns true
\* exactly when p is the plaintext the stored hash was made from, and no
\* bcrypt.hash call was ever given a hash as its input.
C21_Original ==
    /\ (ret.op = "compare" /\ ret.status = "ok" /\ ComparedPersisted(ret.u)) =>
          (ret.bool = "true" <=>
              \E i \in HashesOf(ret.enc) : hashLog[i].plain = ret.arg)
    /\ \A i \in DOMAIN hashLog : ~IsBcryptHash(hashLog[i].plain)

\* ------------------------------------------------------ the hook and next

\* C22: the hook of a save calls next() at most once; it has called it
\* exactly once when the save completes or its write fails, and not at all
\* when the save fails in the hook; with Password unmodified next() is called
\* in the step that started the save, the document going to the write as it
\* was; with Password modified next() is not called while bcrypt.hash is
\* awaited and is called in the step in which the hash is assigned to
\* Password, so that the hash is what is written; and a save suspended in
\* bcrypt.hash or in its write settles.
C22_NextExactlyOnce ==
    /\ [][\A u \in AllUsers :
            /\ nextCalls'[u] <= 1
            /\ pc'[u] = "hashing" => nextCalls'[u] = 0
            /\ pc'[u] = "writing" => nextCalls'[u] = 1
            /\ SaveCompletes(u) => (nextCalls[u] = 1 /\ ret'.nextCalls = 1)
            /\ (SaveStep(u) /\ ret'.err = "MongoServerError") =>
                  (nextCalls[u] = 1 /\ ret'.nextCalls = 1)
            /\ (SaveStep(u) /\ ret'.err = "Error") =>
                  (nextCalls[u] = 0 /\ ret'.nextCalls = 0)
            /\ (pc[u] = "idle" /\ pc'[u] # "idle" /\ ~IsModified(doc[u])) =>
                  /\ HookSkips(u)
                  /\ nextCalls'[u] = nextCalls[u] + 1
                  /\ pend'[u] = doc[u]
                  /\ hashLog' = hashLog
            /\ HookSkips(u) => ~IsModified(doc[u])
            /\ HashBegins(u) => (IsModified(doc[u]) /\ nextCalls' = nextCalls)
            /\ HookResumes(u) =>
                  /\ nextCalls'[u] = nextCalls[u] + 1
                  /\ pend'[u].Password = HashedPassword(hashArg[u], nextSalt)
                  /\ IsModified(pend'[u])
            /\ (SaveCompletes(u) /\ ret'.hashed) =>
                  db'[u].Password = pend[u].Password]_vars
    /\ \A u \in AllUsers :
          (pc[u] # "idle") ~> (pc[u] = "idle" /\ ret.op = "save" /\ ret.u = u)

C22_Witness ==
    /\ ret.op = "save" /\ ret.status = "ok" /\ ret.u = "u1"
    /\ ~ret.hashed /\ ret.nextCalls = 1
    /\ Len(hashLog) >= 1
    /\ IsBcryptHash(db["u1"].Password)
    /\ db["u1"].email = "e2"

\* --------------------------------------------------- the upload's failures

\* call c of uploadonCloudinary returns in this step
UploadReturns(c) == cld.calls[c].pc # "done" /\ cld'.calls[c].pc = "done"

\* C23: when a call for a non-empty path returns after its upload failed, the
\* file at that path is not among the local files.
C23_FailedUploadRemovesFile ==
    [][\A c \in 1..MaxCalls :
          (UploadReturns(c) /\ cld.calls[c].pc = "uploading"
             /\ ~cld'.calls[c].uploaded) =>
              /\ cld.calls[c].path \notin cld'.files
              /\ cld'.files = cld.files \ {cld.calls[c].path}]_vars

C23_Witness ==
    \E c \in 1..MaxCalls :
        /\ cld.calls[c].pc = "done"
        /\ cld.calls[c].path = "a.png"
        /\ ~cld.calls[c].uploaded
        /\ cld.calls[c].returned = [kind |-> "undefined"]
        /\ cld.files = {"b.png"}

\* C24: a call with undefined, null or the empty string as path returns null
\* in the step of the call: it is never uploading, and the local files are
\* as before.
C24_MissingPathReturnsNull ==
    [][\A c \in 1..MaxCalls :
          (cld.calls[c].pc = "idle" /\ cld'.calls[c].pc # "idle"
             /\ cld'.calls[c].path \in FalsyPaths) =>
              /\ cld'.calls[c].pc = "done"
              /\ cld'.calls[c].returned = [kind |-> "null"]
              /\ ~cld'.calls[c].uploaded
              /\ cld'.files = cld.files]_vars

C24_Witness ==
    \E c \in 1..MaxCalls :
        /\ cld.calls[c].pc = "done"
        /\ cld.calls[c].path = ""
        /\ cld.calls[c].returned = [kind |-> "null"]
        /\ cld.files = LocalPaths

\* C25 (as stated): no call of uploadonCloudinary ends with its promise
\* rejected.
C25_Original ==
    \A c \in 1..MaxCalls :
        cld.calls[c].pc = "done" => cld.calls[c].returned.kind # "rejected"

\* ------------------------------------------------------ the middleware order

\* the middleware a request passes before the users router
BeforeRouter == <<"cors", "json", "urlencoded", "static", "cookieParser">>

\* the request is at the users router, or has been there
ReachedRouter ==
    \/ http.stage \in {"userRouter", "registerUser"}
    \/ \E i \in DOMAIN http.trace : http.trace[i] \in {"userRouter",
                                                       "registerUser"}

\* C27: a request that is at the users router or at registerUser, or has
\* been, has passed cors, json, urlencoded, static and cookieParser first and
\* in this order, each one once.
C27_MiddlewareBeforeRouter ==
    ReachedRouter =>
        /\ Len(http.trace) >= Len(BeforeRouter)
        /\ SubSeq(http.trace, 1, Len(BeforeRouter)) = BeforeRouter
        /\ \A i \in DOMAIN http.trace :
              i > Len(BeforeRouter) =>
                  http.trace[i] \in {"userRouter", "registerUser",
                                     "finalhandler"}

C27_Witness ==
    /\ http.stage = "userRouter"
    /\ http.req.method = "GET"
    /\ http.req.path = MountPath \o <<"login">>
    /\ http.req.contentType = "urlencoded"
    /\ http.trace = BeforeRouter

\* ------------------------------------------------- the wrapper's calls of next

\* C28: for each call of a wrapped handler, the wrapper has called next with
\* an error at most once; it has called it only for a handler whose promise
\* was rejected, with the reason of the rejection, and never for a handler
\* that returned or whose promise was fulfilled.
C28_NextWithErrorAtMostOnce ==
    \A r \in 1..MaxCalls :
        /\ Len(ah[r].nextArgs) <= 1
        /\ ah[r].settled = "fulfilled" => ah[r].nextArgs = <<>>
        /\ ah[r].nextArgs # <<>> =>
              (ah[r].settled = "rejected" /\ ah[r].nextArgs = <<ah[r].thrown>>)

C28_Witness ==
    /\ ah[1].kind = "async" /\ ah[1].settled = "rejected"
    /\ ah[1].nextArgs = <<"E2">>
    /\ ah[2].kind = "async" /\ ah[2].settled = "fulfilled"
    /\ ah[2].nextArgs = <<>>
    /\ ah[3].pc = "pending"

\* ------------------------------------------------------- the server's start

\* the places of a call in the order of the calls startServer has made
PlacesOf(name) == {i \in DOMAIN srv.calls : srv.calls[i] = name}

\* C26: listen has been called only with connectDB resolved, and after the
\* call of connectDB; while connectDB is pending the server does not listen;
\* once connectDB has rejected, listen has not been called, the failure is
\* in the log and the promise of startServer is fulfilled.
C26_ListenAfterConnect ==
    /\ (srv.listening \/ PlacesOf("listen") # {}) =>
          /\ srv.db = "resolved"
          /\ \A i \in PlacesOf("listen") : \E j \in PlacesOf("connectDB") : j < i
    /\ srv.pc = "connecting" =>
          (~srv.listening /\ PlacesOf("listen") = {})
    /\ srv.db = "rejected" =>
          /\ ~srv.listening
          /\ PlacesOf("listen") = {}
          /\ srv.pc = "done"
          /\ srv.settled = "fulfilled"
          /\ \E i \in DOMAIN srv.log, e \in Errors :
                srv.log[i] = LogEntry("Failed to start server:", e, 0)

C26_Witness ==
    /\ srv.db = "rejected"
    /\ srv.pc = "done" /\ srv.settled = "fulfilled"
    /\ ~srv.listening
    /\ srv.calls = <<"connectDB">>
    /\ srv.log = <<LogEntry("Failed to start server:", "E1", 0)>>

\* C29: every call of listen comes after the registration of the "error"
\* listener, so that a listening server has the listener; and an "error"
\* event emitted with the listener registered adds the error to the log and
\* throws that same error.
C29_ListenerBeforeListen ==
    /\ [](/\ \A i \in PlacesOf("listen") : \E j \in PlacesOf("on") : j < i
          /\ srv.listening => srv.listeners = 1)
    /\ [][(srv'.emits = srv.emits + 1 /\ srv.listeners > 0) =>
             \E e \in Errors :
                 /\ srv'.log = Append(srv.log, LogEntry("Express error:", e, 0))
                 /\ srv'.thrown = e
                 /\ srv'.heard]_vars

C29_Witness ==
    /\ srv.listening
    /\ srv.calls = <<"connectDB", "on", "listen">>
    /\ srv.port = DefaultPort
    /\ srv.emits = 1 /\ srv.heard /\ srv.thrown = "E2"
    /\ srv.log = <<LogEntry("Server is running at port:", "none", DefaultPort),
                   LogEntry("Express error:", "E2", 0)>>

====
